---- MODULE Spec2Model ----
(***************************************************************************)
(* A model of the Iron Gate detection service (apps/detection/src):        *)
(*   - pipeline.py      : fusion of candidate entities (merge + boosting)  *)
(*   - scorer.py        : the sensitivity score                            *)
(*   - pseudonymizer.py : the session-scoped pseudonymization engine       *)
(*   - main.py          : the session store behind /v1/pseudonymize, the   *)
(*                        producers behind /v1/detect, requests in flight  *)
(*                                                                         *)
(* Conventions.                                                            *)
(*   Strings are sequences of one-character strings, so that slicing,      *)
(*   concatenation and str.replace are computed, not assumed.              *)
(*   A confidence is an integer number of hundredths (0.8 is 80); the      *)
(*   inputs are multiples of 0.1, so that c * 1.3 is exact in hundredths.  *)
(*   Time is an integer number of seconds.                                 *)
(***************************************************************************)
EXTENDS Integers, Sequences, FiniteSets, TLC

VARIABLES
    \* ---- pipeline.py: one detect() call
    fpc,            \* "off" | "ready" (candidates collected) | "done" (detect returned)
    all_entities,   \* detect: the candidates of all producers, in producer order
    sorted_entities,\* _merge_entities: the candidates in sorted order, as indices into all_entities
    sweep,          \* _merge_entities: merged after each iteration of the sweep (history)
    merged,         \* detect: the result of _merge_entities, as indices into all_entities
    boosted,        \* detect: the list detect returns
    engines,        \* the pipeline object: which engines _initialize has set up
    runs,           \* what each producer does when detect calls it: raises, or its results
    engines_used,   \* detect_entities: the producer names returned with the entities
    \* ---- scorer.py: one compute_sensitivity_score() call
    spc,            \* "ready" (arguments chosen) | "done" (the call returned)
    s_text,         \* the text argument
    s_entities,     \* the entities argument
    s_result,       \* the (score, level, explanation) returned
    s_locals,       \* the four components the call added up, as its locals hold them
    \* ---- the clock and the hash function
    now,            \* time.time()
    sha,            \* _sha256, as far as the generators read it
    \* ---- pseudonymizer.py: one Pseudonymizer object and the calls made on it
    session,        \* the Pseudonymizer object
    last,           \* the latest call on it and what it returned
    issued,         \* history: every <<type, original, pseudonym>> a call has substituted
    \* ---- main.py: the session store and the /v1/pseudonymize handler
    pseudonymizer_sessions, \* _pseudonymizer_sessions: session id -> Pseudonymizer
    next_uuid,      \* uuid.uuid4(): the next fresh id
    requests,       \* the number of /v1/pseudonymize requests handled
    response,       \* the latest request's session id and what it was answered
    inflight        \* the requests received whose handler has not run yet

fusionVars ==
    <<fpc, all_entities, sorted_entities, sweep, merged, boosted, engines, runs, engines_used>>
scoreVars == <<spc, s_text, s_entities, s_result, s_locals>>
clockVars == <<now, sha>>
sessionVars == <<session, last, issued>>
storeVars == <<pseudonymizer_sessions, next_uuid, requests, response, inflight>>
vars == <<fusionVars, scoreVars, clockVars, sessionVars, storeVars>>

Min(a, b) == IF a <= b THEN a ELSE b
Max(a, b) == IF a >= b THEN a ELSE b
Abs(a) == IF a < 0 THEN 0 - a ELSE a
Last(s) == s[Len(s)]
Range(s) == {s[i] : i \in 1..Len(s)}

\* Python's s[a:b] for 0 <= a, b (indices past the end are clamped).
Slice(s, a, b) == SubSeq(s, Min(a, Len(s)) + 1, Min(b, Len(s)))

(***************************************************************************)
(* pipeline.py: the fusion engine                                          *)
(***************************************************************************)

\* Bounds of the fusion inputs.
MaxCands == 3        \* candidates in one detect call (overlap family)
MaxBoostCands == 2   \* candidates in one detect call (agreement family)
TextLen == 3         \* length of the text the overlap family's spans lie in

FusionText == [i \in 1..TextLen |-> "a"]
Confidences == {50, 80}
Sources == <<"presidio", "gliner", "custom">>
SourceRank(s) == CHOOSE i \in 1..Len(Sources) : Sources[i] = s

\* The dict detect appends for one producer result (pipeline.py 129-136).
Candidate(ty, s, e, c, src) ==
    [type |-> ty, text |-> Slice(FusionText, s, e), start |-> s, end |-> e,
     confidence |-> c, source |-> src]

ValidSpan(e, len) == 0 <= e.start /\ e.start < e.end /\ e.end <= len

\* detect appends presidio's results, then gliner's, then the custom recognizers'.
InProducerOrder(ents) ==
    \A i \in 1..Len(ents) - 1 : SourceRank(ents[i].source) <= SourceRank(ents[i + 1].source)

SeqsUpTo(S, n) == UNION {[1..k -> S] : k \in 0..n}

\* Overlap family: every valid span of the text, one type, one producer.
ValidSpans == {sp \in (0..TextLen) \X (0..TextLen) : sp[1] < sp[2]}
OverlapCands ==
    {Candidate("PERSON", sp[1], sp[2], c, "presidio") : sp \in ValidSpans, c \in Confidences}

\* Agreement family: spans whose starts and ends differ by 0..3, two types, three sources.
BoostSpans == {<<0, 5>>, <<1, 6>>, <<2, 8>>, <<3, 8>>}
BoostCands ==
    {[type |-> ty, text |-> <<>>, start |-> sp[1], end |-> sp[2],
      confidence |-> c, source |-> src] :
        ty \in {"PERSON", "EMAIL"}, sp \in BoostSpans, c \in Confidences,
        src \in Range(Sources)}

\* sorted(entities, key=lambda e: (e["start"], -e["confidence"])): the key order.
KeyLess(a, b) ==
    a.start < b.start \/ (a.start = b.start /\ a.confidence > b.confidence)

\* Python's sorted is stable: equal keys keep their input order.
SortedOrder(ents) ==
    LET n == Len(ents)
        Before(j, i) == KeyLess(ents[j], ents[i])
                        \/ (~KeyLess(ents[i], ents[j]) /\ j < i)
        Rank(i) == 1 + Cardinality({j \in 1..n : j # i /\ Before(j, i)})
    IN [p \in 1..n |-> CHOOSE i \in 1..n : Rank(i) = p]

\* Mutants of the sweep iteration.
\* The overlap test reads the accepted entity's start instead of its end.
SweepStepStartTest(ents, m, i) ==
    IF ents[i].start < ents[Last(m)].start
    THEN IF ents[i].confidence > ents[Last(m)].confidence
         THEN [m EXCEPT ![Len(m)] = i]
         ELSE m
    ELSE Append(m, i)
\* The comparison is inverted: the lower-confidence candidate replaces.
SweepStepKeepLower(ents, m, i) ==
    IF ents[i].start < ents[Last(m)].end
    THEN IF ents[i].confidence < ents[Last(m)].confidence
         THEN [m EXCEPT ![Len(m)] = i]
         ELSE m
    ELSE Append(m, i)
\* A tie replaces the accepted entity (>= for >).
SweepStepTieReplaces(ents, m, i) ==
    IF ents[i].start < ents[Last(m)].end
    THEN IF ents[i].confidence >= ents[Last(m)].confidence
         THEN [m EXCEPT ![Len(m)] = i]
         ELSE m
    ELSE Append(m, i)

\* One iteration of the sweep (pipeline.py 242-249): m is merged, i the candidate.
SweepStep(ents, m, i) ==
    IF ents[i].start < ents[Last(m)].end
    THEN IF ents[i].confidence > ents[Last(m)].confidence
         THEN [m EXCEPT ![Len(m)] = i]
         ELSE m
    ELSE Append(m, i)

\* merged after the first k candidates of the sorted order.
RECURSIVE MergeSweep(_, _, _)
MergeSweep(ents, order, k) ==
    IF k = 0 THEN <<>>
    ELSE IF k = 1 THEN <<order[1]>>
    ELSE SweepStep(ents, MergeSweep(ents, order, k - 1), order[k])

merge_entities(ents) == MergeSweep(ents, SortedOrder(ents), Len(ents))

\* merged after each iteration, for the claims about single iterations.
SweepHistory(ents) ==
    [k \in 1..Len(ents) |-> MergeSweep(ents, SortedOrder(ents), k)]

\* The sources that agree with entity i (pipeline.py 258-265).
AgreeingSources(ents, i) ==
    {ents[j].source : j \in {j \in 1..Len(ents) :
        /\ Abs(ents[j].start - ents[i].start) <= 2
        /\ Abs(ents[j].end - ents[i].end) <= 2
        /\ ents[j].type = ents[i].type}}

\* min(1.0, confidence * 1.3), in hundredths.
BoostedConfidence(c) == Min(100, (c * 13) \div 10)

\* Mutant: one source is enough to boost.
AgreesSingleSource(ents, i) == Cardinality(AgreeingSources(ents, i)) >= 1

Agrees(ents, i) == Cardinality(AgreeingSources(ents, i)) >= 2

boost_agreement(ents, m) ==
    [p \in 1..Len(m) |->
        IF Agrees(ents, m[p])
        THEN [ents[m[p]] EXCEPT !.confidence = BoostedConfidence(@)]
        ELSE ents[m[p]]]

\* No pipeline object and no producer in sight: the candidates are given directly.
ProducersOff == engines = <<>> /\ runs = <<>> /\ engines_used = <<>>

FusionOff ==
    /\ fpc = "off" /\ all_entities = <<>> /\ sorted_entities = <<>>
    /\ sweep = <<>> /\ merged = <<>> /\ boosted = <<>>
    /\ ProducersOff

InitFusionInputs ==
    /\ fpc = "ready"
    /\ \/ /\ all_entities \in SeqsUpTo(OverlapCands, MaxCands)
          /\ \A i \in 1..Len(all_entities) : ValidSpan(all_entities[i], TextLen)
       \/ /\ all_entities \in SeqsUpTo(BoostCands, MaxBoostCands)
          /\ InProducerOrder(all_entities)
    /\ sorted_entities = <<>>
    /\ sweep = <<>>
    /\ merged = <<>>
    /\ boosted = <<>>
    /\ ProducersOff

\* detect, from the merge on (pipeline.py 182-188).
Detect ==
    /\ fpc = "ready"
    /\ sorted_entities' = SortedOrder(all_entities)
    /\ sweep' = SweepHistory(all_entities)
    /\ merged' = merge_entities(all_entities)
    /\ boosted' = boost_agreement(all_entities, merged')
    /\ fpc' = "done"
    /\ UNCHANGED <<all_entities, engines, runs, engines_used>>

NextFusion == Detect /\ UNCHANGED <<scoreVars, clockVars, sessionVars, storeVars>>

(***************************************************************************)
(* pipeline.py and main.py: the producers behind one /v1/detect request    *)
(***************************************************************************)

\* Bounds of the producer runs.
NumRecognizers == 2       \* custom recognizers set up (the code sets up five)
MaxProducerResults == 1   \* results one producer returns in one call

\* What an external engine can hand back for the text: spans inside it, a span that
\* ends after the text, and an empty span.
ProducerResult(sp, c) == [entity_type |-> "PERSON", start |-> sp[1], end |-> sp[2], score |-> c]
EngineResults ==
    {ProducerResult(<<0, 2>>, 80), ProducerResult(<<1, 3>>, 50),
     ProducerResult(<<1, TextLen + 1>>, 80), ProducerResult(<<2, 2>>, 80)}
\* The custom recognizers return regular-expression matches of the text.
RecognizerResults == {ProducerResult(<<0, 2>>, 80)}

\* One call of a producer: it raises, or it returns a list of results.
Raised == [raised |-> TRUE, results |-> <<>>]
Returned(results) == [raised |-> FALSE, results |-> results]
EngineRuns == {Raised} \cup {Returned(r) : r \in SeqsUpTo(EngineResults, MaxProducerResults)}
RecognizerRuns ==
    {Raised} \cup {Returned(r) : r \in SeqsUpTo(RecognizerResults, MaxProducerResults)}
NotCalled == [raised |-> FALSE, results |-> <<>>]

\* The pipeline after _initialize: each engine is set up or left None, the custom
\* recognizers are all set up or the list is left empty (pipeline.py 27-45).
EngineConfigs ==
    [presidio : BOOLEAN, gliner : BOOLEAN, custom : {0, NumRecognizers}]

\* The dicts detect appends for one producer's results (pipeline.py 128-136).
Converted(results, src) ==
    SubSeq([i \in 1..Len(results) |->
                Candidate(results[i].entity_type, results[i].start, results[i].end,
                          results[i].score, src)], 1, Len(results))

\* Mutant: the handler of a raising producer clears what was collected before it.
RunProducerClearing(acc, configured, run, src) ==
    IF ~configured THEN acc
    ELSE IF run.raised THEN <<>>
    ELSE acc \o Converted(run.results, src)

\* One try block of detect: the producer is called if it is set up; if the call
\* raises, the error is logged and nothing is appended (pipeline.py 120-137).
RunProducer(acc, configured, run, src) ==
    IF ~configured THEN acc
    ELSE IF run.raised THEN acc
    ELSE acc \o Converted(run.results, src)

\* The loop over self._custom_recognizers, one try block per recognizer
\* (pipeline.py 166-180).
RECURSIVE RunRecognizers(_, _, _)
RunRecognizers(acc, custom_runs, k) ==
    IF k = 0 THEN acc
    ELSE RunProducer(RunRecognizers(acc, custom_runs, k - 1), TRUE, custom_runs[k], "custom")

\* detect up to the merge: all_entities after the three stages (pipeline.py 117-180).
CollectCandidates(eng, rn) ==
    RunRecognizers(
        RunProducer(RunProducer(<<>>, eng.presidio, rn.presidio, "presidio"),
                    eng.gliner, rn.gliner, "gliner"),
        rn.custom, Len(rn.custom))

\* get_active_engines (pipeline.py 203-212).
get_active_engines(eng) ==
    (IF eng.presidio THEN <<"presidio">> ELSE <<>>)
    \o (IF eng.gliner THEN <<"gliner">> ELSE <<>>)
    \o (IF eng.custom > 0 THEN <<"custom">> ELSE <<>>)

\* A request arrives at a pipeline in any configuration; each producer that is set up
\* will raise or return.
InitProducers ==
    /\ fpc = "ready"
    /\ engines \in EngineConfigs
    /\ runs \in [presidio : IF engines.presidio THEN EngineRuns ELSE {NotCalled},
                  gliner : IF engines.gliner THEN EngineRuns ELSE {NotCalled},
                  custom : [1..engines.custom -> RecognizerRuns]]
    /\ all_entities = <<>>
    /\ sorted_entities = <<>>
    /\ sweep = <<>>
    /\ merged = <<>>
    /\ boosted = <<>>
    /\ engines_used = <<>>

\* detect_entities: pipeline.detect, then the response with the entities and
\* get_active_engines() (main.py 80-106).
DetectEntities ==
    /\ fpc = "ready"
    /\ \E collected \in {CollectCandidates(engines, runs)} :
          /\ all_entities' = collected
          /\ sorted_entities' = SortedOrder(collected)
          /\ sweep' = SweepHistory(collected)
          /\ merged' = merge_entities(collected)
          /\ boosted' = boost_agreement(collected, merge_entities(collected))
    /\ engines_used' = get_active_engines(engines)
    /\ fpc' = "done"
    /\ UNCHANGED <<engines, runs>>

NextProducers ==
    DetectEntities /\ UNCHANGED <<scoreVars, clockVars, sessionVars, storeVars>>

(***************************************************************************)
(* scorer.py: the sensitivity score                                        *)
(***************************************************************************)

\* ENTITY_WEIGHTS.get(type, 5) (scorer.py 8-43, 71).
Weight(t) ==
    CASE t = "PERSON" -> 10
      [] t = "ORGANIZATION" -> 8
      [] t = "LOCATION" -> 3
      [] t = "DATE" -> 2
      [] t = "PHONE_NUMBER" -> 15
      [] t = "EMAIL" -> 12
      [] t = "CREDIT_CARD" -> 30
      [] t = "SSN" -> 40
      [] t = "MONETARY_AMOUNT" -> 12
      [] t = "ACCOUNT_NUMBER" -> 25
      [] t = "IP_ADDRESS" -> 8
      [] t = "MEDICAL_RECORD" -> 35
      [] t = "PASSPORT_NUMBER" -> 35
      [] t = "DRIVERS_LICENSE" -> 30
      [] t = "MATTER_NUMBER" -> 20
      [] t = "CLIENT_MATTER_PAIR" -> 25
      [] t = "PRIVILEGE_MARKER" -> 30
      [] t = "DEAL_CODENAME" -> 20
      [] t = "OPPOSING_COUNSEL" -> 15
      [] t = "API_KEY" -> 50
      [] t = "DATABASE_URI" -> 50
      [] t = "AUTH_TOKEN" -> 45
      [] t = "PRIVATE_KEY" -> 50
      [] t = "AWS_CREDENTIAL" -> 50
      [] t = "GCP_CREDENTIAL" -> 45
      [] t = "AZURE_CREDENTIAL" -> 45
      [] t = "FINANCIAL_INSTRUMENT" -> 30
      [] t = "TRADE_SECRET" -> 50
      [] t = "LITIGATION_STRATEGY" -> 45
      [] t = "PROPRIETARY_FORMULA" -> 50
      [] t = "MNPI" -> 50
      [] t = "CLINICAL_DATA" -> 40
      [] OTHER -> 5

\* LEGAL_KEYWORDS (scorer.py 45-50).
LEGAL_KEYWORDS == <<
    <<"p", "r", "i", "v", "i", "l", "e", "g", "e", "d">>,
    <<"a", "t", "t", "o", "r", "n", "e", "y", "-", "c", "l", "i", "e", "n", "t">>,
    <<"w", "o", "r", "k", " ", "p", "r", "o", "d", "u", "c", "t">>,
    <<"w", "i", "t", "h", "o", "u", "t", " ", "p", "r", "e", "j", "u", "d", "i", "c", "e">>,
    <<"c", "o", "n", "f", "i", "d", "e", "n", "t", "i", "a", "l">>,
    <<"u", "n", "d", "e", "r", " ", "s", "e", "a", "l">>,
    <<"p", "r", "o", "t", "e", "c", "t", "i", "v", "e", " ", "o", "r", "d", "e", "r">>,
    <<"s", "e", "t", "t", "l", "e", "m", "e", "n", "t">>,
    <<"m", "e", "d", "i", "a", "t", "i", "o", "n">>,
    <<"a", "r", "b", "i", "t", "r", "a", "t", "i", "o", "n">>,
    <<"d", "e", "p", "o", "s", "i", "t", "i", "o", "n">>,
    <<"s", "u", "b", "p", "o", "e", "n", "a">>,
    <<"m", "o", "t", "i", "o", "n", " ", "t", "o", " ", "c", "o", "m", "p", "e", "l">>,
    <<"d", "i", "s", "c", "o", "v", "e", "r", "y">>,
    <<"l", "i", "t", "i", "g", "a", "t", "i", "o", "n", " ", "h", "o", "l", "d">>>>

\* PRIVILEGE_MARKERS (scorer.py 52-56).
PRIVILEGE_MARKERS == <<
    <<"a", "t", "t", "o", "r", "n", "e", "y", "-", "c", "l", "i", "e", "n", "t", " ", "p", "r", "i", "v", "i", "l", "e", "g", "e">>,
    <<"w", "o", "r", "k", " ", "p", "r", "o", "d", "u", "c", "t", " ", "d", "o", "c", "t", "r", "i", "n", "e">>,
    <<"p", "r", "i", "v", "i", "l", "e", "g", "e", "d", " ", "a", "n", "d", " ", "c", "o", "n", "f", "i", "d", "e", "n", "t", "i", "a", "l">>,
    <<"a", "t", "t", "o", "r", "n", "e", "y", " ", "w", "o", "r", "k", " ", "p", "r", "o", "d", "u", "c", "t">>,
    <<"p", "r", "o", "t", "e", "c", "t", "e", "d", " ", "c", "o", "m", "m", "u", "n", "i", "c", "a", "t", "i", "o", "n">>,
    <<"l", "e", "g", "a", "l", " ", "p", "r", "o", "f", "e", "s", "s", "i", "o", "n", "a", "l", " ", "p", "r", "i", "v", "i", "l", "e", "g", "e">>>>

\* str.lower on the characters the model's texts use.
UpperToLower ==
    [c \in {"A", "B", "C", "D", "E", "F", "G", "H", "I", "J", "K", "L", "M", "N", "O", "P", "Q", "R", "S", "T", "U", "V", "W", "X", "Y", "Z"} |->
        CASE c = "A" -> "a"
          [] c = "B" -> "b"
          [] c = "C" -> "c"
          [] c = "D" -> "d"
          [] c = "E" -> "e"
          [] c = "F" -> "f"
          [] c = "G" -> "g"
          [] c = "H" -> "h"
          [] c = "I" -> "i"
          [] c = "J" -> "j"
          [] c = "K" -> "k"
          [] c = "L" -> "l"
          [] c = "M" -> "m"
          [] c = "N" -> "n"
          [] c = "O" -> "o"
          [] c = "P" -> "p"
          [] c = "Q" -> "q"
          [] c = "R" -> "r"
          [] c = "S" -> "s"
          [] c = "T" -> "t"
          [] c = "U" -> "u"
          [] c = "V" -> "v"
          [] c = "W" -> "w"
          [] c = "X" -> "x"
          [] c = "Y" -> "y"
          [] c = "Z" -> "z"]
LowerChar(c) == IF c \in DOMAIN UpperToLower THEN UpperToLower[c] ELSE c
Lower(s) == SubSeq([i \in 1..Len(s) |-> LowerChar(s[i])], 1, Len(s))

\* needle in hay (Python's substring test), for a non-empty needle.
Contains(hay, needle) ==
    \E i \in 1..(Len(hay) - Len(needle) + 1) :
        hay[i] = needle[1] /\ SubSeq(hay, i, i + Len(needle) - 1) = needle

RECURSIVE SumSeq(_)
SumSeq(s) == IF s = <<>> THEN 0 ELSE s[1] + SumSeq(Tail(s))

\* Scores are kept in units of 1/100000, in which every product below is an integer:
\* weight * confidence is in hundredths, the combination factor in hundredths, the
\* count factor in tenths.
ScoreUnit == 100 * 100 * 10

\* 1. Entity score (scorer.py 68-88).
EntitySum(entities) ==
    SumSeq([i \in 1..Len(entities) |-> Weight(entities[i].type) * entities[i].confidence])
\* Mutant: no multiplier for distinct types.
CombinationFactorNone(entities) == 100

CombinationFactor(entities) ==
    LET unique_types == {entities[i].type : i \in 1..Len(entities)}
    IN IF Cardinality(unique_types) >= 3 THEN 130
       ELSE IF Cardinality(unique_types) >= 2 THEN 115
       ELSE 100
CountFactor(entities) ==
    IF Len(entities) >= 10 THEN 14
    ELSE IF Len(entities) >= 5 THEN 12
    ELSE 10
\* Mutant: the sum is capped at 70 before the two multipliers are applied.
EntityScoreCappedFirst(entities) ==
    Min(70 * 100, EntitySum(entities)) * CombinationFactor(entities) * CountFactor(entities)

EntityScore(entities) ==
    Min(70 * ScoreUnit,
        EntitySum(entities) * CombinationFactor(entities) * CountFactor(entities))

\* Mutant: the lowest tier has no threshold, every text scores at least 5.
VolumeScoreNoFloor(text) ==
    IF Len(text) >= 5000 THEN 20
    ELSE IF Len(text) >= 2000 THEN 10
    ELSE 5

\* 2. Volume score (scorer.py 90-99).
VolumeScore(text) ==
    IF Len(text) >= 5000 THEN 20
    ELSE IF Len(text) >= 2000 THEN 10
    ELSE IF Len(text) >= 500 THEN 5
    ELSE 0

\* 3. Context score (scorer.py 101-112).
Surrounding(lower_text, entity) ==
    Slice(lower_text, Max(0, entity.start - 200), Min(Len(lower_text), entity.end + 200))
HasKeywordNear(lower_text, entity) ==
    LET surrounding == Surrounding(lower_text, entity)
    IN \E k \in 1..Len(LEGAL_KEYWORDS) : Contains(surrounding, LEGAL_KEYWORDS[k])
\* Mutant: no break, every keyword found near an entity adds 5.
ContextScorePerKeyword(text, entities) ==
    LET lower_text == Lower(text)
    IN Min(25, 5 * SumSeq([i \in 1..Len(entities) |->
                    Cardinality({k \in 1..Len(LEGAL_KEYWORDS) :
                        Contains(Surrounding(lower_text, entities[i]), LEGAL_KEYWORDS[k])})]))

ContextScore(text, entities) ==
    LET lower_text == Lower(text)
    IN Min(25, 5 * Cardinality({i \in 1..Len(entities) :
                                    HasKeywordNear(lower_text, entities[i])}))

\* 4. Legal boost (scorer.py 114-119).
MarkersPresent(text) ==
    LET lower_text == Lower(text)
    IN {k \in 1..Len(PRIVILEGE_MARKERS) : Contains(lower_text, PRIVILEGE_MARKERS[k])}
LegalBoost(text) == Min(25, 15 * Cardinality(MarkersPresent(text)))

\* Python's round on the float raw_score, as the set of results it can give for the
\* exact value x / ScoreUnit. Away from a tie the float error of the products (about
\* 1e-14) cannot change the nearest integer. At an exact tie it decides: 50 * 1.15 is
\* 57.49999999999999 in binary floating point and rounds to 57, while an exactly
\* represented 57.5 would round to the even 58. Both neighbours are allowed there.
RoundFloat(x) ==
    LET q == x \div ScoreUnit
        r == x % ScoreUnit
    IN IF 2 * r > ScoreUnit THEN {q + 1}
       ELSE IF 2 * r < ScoreUnit THEN {q}
       ELSE {q, q + 1}

\* raw_score (scorer.py 122), in ScoreUnit.
RawScore(text, entities) ==
    EntityScore(entities)
    + (VolumeScore(text) + ContextScore(text, entities) + LegalBoost(text)) * ScoreUnit

\* Mutant: the rounded sum is clamped from below only.
ClampScoreNoUpper(rounded) == Max(0, rounded)

\* score = min(100, max(0, round(raw_score))) (scorer.py 123).
ClampScore(rounded) == Min(100, Max(0, rounded))

\* Mutant: the thresholds are exclusive (< for <=).
LevelOfExclusive(score) ==
    IF score < 25 THEN "low"
    ELSE IF score < 60 THEN "medium"
    ELSE IF score < 85 THEN "high"
    ELSE "critical"

\* Level (scorer.py 125-133).
LevelOf(score) ==
    IF score <= 25 THEN "low"
    ELSE IF score <= 60 THEN "medium"
    ELSE IF score <= 85 THEN "high"
    ELSE "critical"

\* type_counts, in first-occurrence order (scorer.py 149-152).
RECURSIVE TypesInOrder(_)
TypesInOrder(entities) ==
    IF entities = <<>> THEN <<>>
    ELSE LET rest == TypesInOrder(SubSeq(entities, 1, Len(entities) - 1))
             t == Last(entities).type
         IN IF t \in Range(rest) THEN rest ELSE Append(rest, t)
TypeCount(entities, t) == Cardinality({i \in 1..Len(entities) : entities[i].type = t})
\* sorted(type_counts.items(), key=lambda x: -x[1])[:3]: stable, by descending count.
TopTypes(entities) ==
    LET ts == TypesInOrder(entities)
        n == Len(ts)
        Before(j, i) == TypeCount(entities, ts[j]) > TypeCount(entities, ts[i])
                        \/ (TypeCount(entities, ts[j]) = TypeCount(entities, ts[i]) /\ j < i)
        Rank(i) == 1 + Cardinality({j \in 1..n : j # i /\ Before(j, i)})
        order == [p \in 1..n |-> CHOOSE i \in 1..n : Rank(i) = p]
    IN [p \in 1..Min(3, n) |->
            [type |-> ts[order[p]], count |-> TypeCount(entities, ts[order[p]])]]

\* _generate_explanation (scorer.py 141-168). The two fixed messages are strings; the
\* composed message is kept as its parts.
generate_explanation(entities, text) ==
    IF entities = <<>>
    THEN IF Len(text) > 5000
         THEN "Large text volume detected but no specific entities identified."
         ELSE "No sensitive information detected."
    ELSE [detected |-> TopTypes(entities),
          privilege |-> MarkersPresent(text) # {},
          large |-> Len(text) > 2000]

\* compute_sensitivity_score (scorer.py 59-138): the results the call can return.
compute_sensitivity_score(text, entities) ==
    {[score |-> ClampScore(rounded), level |-> LevelOf(ClampScore(rounded)),
      explanation |-> generate_explanation(entities, text)] :
        rounded \in RoundFloat(RawScore(text, entities))}

\* Bound of the scorer's inputs: how many times each entity kind is repeated.
MaxRepeat == 4

Fill(n) == SubSeq([i \in 1..n |-> "x"], 1, n)
Repeat(e, n) == [i \in 1..n |-> e]
ScoreTexts == {
    Fill(50),
    <<"s", "e", "t", "t", "l", "e", "m", "e", "n", "t">> \o Fill(40),
    <<"s", "e", "t", "t", "l", "e", "m", "e", "n", "t">> \o Fill(300),
    <<"P", "R", "I", "V", "I", "L", "E", "G", "E", "D", " ", "A", "N", "D", " ", "C", "O", "N", "F", "I", "D", "E", "N", "T", "I", "A", "L">> \o Fill(300),
    <<"a", "t", "t", "o", "r", "n", "e", "y", " ", "w", "o", "r", "k", " ", "p", "r", "o", "d", "u", "c", "t", ",", " ", "p", "r", "o", "t", "e", "c", "t", "e", "d", " ", "c", "o", "m", "m", "u", "n", "i", "c", "a", "t", "i", "o", "n">> \o Fill(300),
    Fill(499), Fill(500), Fill(1999), Fill(2000), Fill(4999), Fill(5000), Fill(5001)}
ScoreEntity(ty, s, e, c) ==
    [type |-> ty, text |-> <<>>, start |-> s, end |-> e, confidence |-> c,
     source |-> "presidio"]
\* n1 entities of a listed type near the start, n2 of a heavy type far from it, n3 of
\* an unlisted type.
ScoreEntityLists ==
    {Repeat(ScoreEntity("PERSON", 20, 25, 50), n1)
        \o Repeat(ScoreEntity("SSN", 250, 255, 100), n2)
        \o Repeat(ScoreEntity("BADGE_NUMBER", 20, 25, 80), n3) :
        n1 \in 0..MaxRepeat, n2 \in 0..MaxRepeat, n3 \in 0..MaxRepeat}

\* The scored example: "Contact John Smith at john@example.com, SSN 123-45-6789" with
\* the person at 8-18, the e-mail address at 22-38 and the number at 44-55.
ScenarioText ==
    <<"C", "o", "n", "t", "a", "c", "t", " ", "J", "o", "h", "n", " ", "S", "m", "i",
    "t", "h", " ", "a", "t", " ", "j", "o", "h", "n", "@", "e", "x", "a", "m", "p", "l",
    "e", ".", "c", "o", "m", ",", " ", "S", "S", "N", " ", "1", "2", "3", "-", "4", "5",
    "-", "6", "7", "8", "9">>
ScenarioEntity(ty, s, e, c) ==
    [type |-> ty, text |-> Slice(ScenarioText, s, e), start |-> s, end |-> e,
     confidence |-> c, source |-> "presidio"]
ScenarioEntities ==
    <<ScenarioEntity("PERSON", 8, 18, 90), ScenarioEntity("EMAIL", 22, 38, 95),
      ScenarioEntity("SSN", 44, 55, 99)>>

\* Bound of the window inputs: entities in one list.
MaxContextEnts == 2

\* Window family: one keyword at the start or at the end of a 310-character text, and
\* entities whose window of 200 characters on either side just reaches it or just
\* misses it.
ContextTexts == {
    <<"s", "e", "t", "t", "l", "e", "m", "e", "n", "t">> \o Fill(300),
    Fill(300) \o <<"s", "e", "t", "t", "l", "e", "m", "e", "n", "t">>}
ContextEntities ==
    {ScoreEntity("PERSON", 200, 205, 50), ScoreEntity("PERSON", 201, 206, 50),
     ScoreEntity("PERSON", 100, 110, 50), ScoreEntity("PERSON", 100, 109, 50)}
ContextEntityLists == SeqsUpTo(ContextEntities, MaxContextEnts)

NoLocals == [entity_score |-> 0, volume_score |-> 0, context_score |-> 0, legal_boost |-> 0]

InitScore ==
    /\ spc = "ready"
    /\ \/ s_text \in ScoreTexts /\ s_entities \in ScoreEntityLists
       \/ s_text = ScenarioText /\ s_entities = ScenarioEntities
       \/ s_text \in ContextTexts /\ s_entities \in ContextEntityLists
    /\ s_result = [score |-> 0, level |-> "", explanation |-> ""]
    /\ s_locals = NoLocals

\* One call of compute_sensitivity_score: entity_score (in ScoreUnit), volume_score,
\* context_score and legal_boost as they stand at scorer.py 122, and what is returned.
ComputeScore ==
    /\ spc = "ready"
    /\ s_result' \in compute_sensitivity_score(s_text, s_entities)
    /\ s_locals' = [entity_score |-> EntityScore(s_entities),
                    volume_score |-> VolumeScore(s_text),
                    context_score |-> ContextScore(s_text, s_entities),
                    legal_boost |-> LegalBoost(s_text)]
    /\ spc' = "done"
    /\ UNCHANGED <<s_text, s_entities>>

NextScore == ComputeScore

ScoreOff ==
    /\ spc = "off" /\ s_text = <<>> /\ s_entities = <<>>
    /\ s_result = [score |-> 0, level |-> "", explanation |-> ""]
    /\ s_locals = NoLocals

(***************************************************************************)
(* pseudonymizer.py: the session-scoped pseudonymization engine            *)
(*                                                                         *)
(* The model is of the build without the optional faker package, where     *)
(* every generator takes its deterministic fallback path.                  *)
(***************************************************************************)

\* SESSION_EXPIRY_SECONDS (pseudonymizer.py 70).
SESSION_EXPIRY_SECONDS == 3600

\* FAKE_PERSONS (pseudonymizer.py 24-33).
FAKE_PERSONS == <<
    <<"J", "a", "m", "e", "s", " ", "M", "i", "t", "c", "h", "e", "l", "l">>,
    <<"S", "a", "r", "a", "h", " ", "C", "h", "e", "n">>,
    <<"R", "o", "b", "e", "r", "t", " ", "A", "l", "v", "a", "r", "e", "z">>,
    <<"E", "m", "i", "l", "y", " ", "N", "a", "k", "a", "m", "u", "r", "a">>,
    <<"D", "a", "v", "i", "d", " ", "K", "o", "w", "a", "l", "s", "k", "i">>,
    <<"M", "a", "r", "i", "a", " ", "R", "o", "s", "s", "i">>,
    <<"M", "i", "c", "h", "a", "e", "l", " ", "O", "k", "o", "n", "k", "w", "o">>,
    <<"L", "i", "s", "a", " ", "J", "o", "h", "a", "n", "s", "s", "o", "n">>,
    <<"T", "h", "o", "m", "a", "s", " ", "B", "r", "e", "n", "n", "a", "n">>,
    <<"A", "m", "a", "n", "d", "a", " ", "S", "i", "n", "g", "h">>,
    <<"W", "i", "l", "l", "i", "a", "m", " ", "P", "a", "r", "k">>,
    <<"R", "a", "c", "h", "e", "l", " ", "M", "o", "r", "e", "a", "u">>,
    <<"C", "h", "r", "i", "s", "t", "o", "p", "h", "e", "r", " ", "T", "a", "n", "a", "k", "a">>,
    <<"J", "e", "n", "n", "i", "f", "e", "r", " ", "O", "'", "B", "r", "i", "e", "n">>,
    <<"D", "a", "n", "i", "e", "l", " ", "I", "v", "a", "n", "o", "v">>,
    <<"L", "a", "u", "r", "a", " ", "S", "c", "h", "m", "i", "d", "t">>,
    <<"A", "n", "d", "r", "e", "w", " ", "P", "e", "t", "r", "o", "v">>,
    <<"S", "t", "e", "p", "h", "a", "n", "i", "e", " ", "K", "i", "m">>,
    <<"M", "a", "t", "t", "h", "e", "w", " ", "D", "u", "b", "o", "i", "s">>,
    <<"N", "i", "c", "o", "l", "e", " ", "A", "n", "d", "e", "r", "s", "e", "n">>,
    <<"B", "r", "i", "a", "n", " ", "H", "e", "r", "r", "e", "r", "a">>,
    <<"K", "a", "r", "e", "n", " ", "Y", "a", "m", "a", "m", "o", "t", "o">>,
    <<"P", "a", "t", "r", "i", "c", "k", " ", "S", "u", "l", "l", "i", "v", "a", "n">>,
    <<"M", "e", "g", "a", "n", " ", "B", "e", "c", "k", "e", "r">>,
    <<"J", "o", "n", "a", "t", "h", "a", "n", " ", "L", "a", "r", "s", "e", "n">>,
    <<"A", "l", "l", "i", "s", "o", "n", " ", "F", "e", "r", "n", "a", "n", "d", "e", "z">>,
    <<"S", "t", "e", "v", "e", "n", " ", "I", "t", "o">>,
    <<"R", "e", "b", "e", "c", "c", "a", " ", "M", "a", "l", "o", "n", "e">>,
    <<"G", "r", "e", "g", "o", "r", "y", " ", "N", "o", "v", "a", "k">>,
    <<"C", "a", "t", "h", "e", "r", "i", "n", "e", " ", "L", "i", "n", "d", "q", "v", "i", "s", "t">>>>

\* The entity types of the model's requests, and their names as characters.
TypeChars(ty) ==
    CASE ty = "PERSON" -> <<"P", "E", "R", "S", "O", "N">>
      [] ty = "API_KEY" -> <<"A", "P", "I", "_", "K", "E", "Y">>
      [] ty = "OPPOSING_COUNSEL" -> <<"O", "P", "P", "O", "S", "I", "N", "G", "_", "C", "O", "U", "N", "S", "E", "L">>

\* The keys of the generators table (pseudonymizer.py 283-303).
GeneratorTypes == {
    "PERSON", "ORGANIZATION", "EMAIL", "PHONE_NUMBER", "SSN", "CREDIT_CARD",
    "MONETARY_AMOUNT", "LOCATION", "DATE", "MATTER_NUMBER", "CLIENT_MATTER_PAIR",
    "DEAL_CODENAME", "ACCOUNT_NUMBER", "IP_ADDRESS", "MEDICAL_RECORD",
    "PASSPORT_NUMBER", "DRIVERS_LICENSE", "OPPOSING_COUNSEL", "PRIVILEGE_MARKER"}

\* _sha256 (pseudonymizer.py 77-79) is a fixed function the model does not compute. A
\* digest is the sequence of its 8-hex-digit words, as numbers, as far as the modelled
\* generators read it: hex_hash[:8] is the first word, hex_hash[8:] drops it. sha
\* gives the digest of each original. The first words explored are the seeds below
\* (0 and 30 pick the same entry of a 30-entry pool, 1 another); the second word is 0.
Seeds == {0, 1, 30}
Digests == {<<s, 0>> : s \in Seeds}
sha256(original) == sha[original]

\* _pick_from_pool (pseudonymizer.py 82-85); Python lists are 0-based.
pick_from_pool(pool, hex_hash) == pool[(hex_hash[1] % Len(pool)) + 1]

\* _generate_person without faker (pseudonymizer.py 107-111).
generate_person(hex_hash) == pick_from_pool(FAKE_PERSONS, hex_hash)

\* firms (pseudonymizer.py 257-261).
OpposingFirms == <<
    <<"B", "a", "k", "e", "r", " ", "&", " ", "A", "s", "s", "o", "c", "i", "a", "t", "e", "s">>,
    <<"T", "h", "o", "m", "p", "s", "o", "n", " ", "L", "L", "P">>,
    <<"C", "r", "a", "n", "e", " ", "L", "e", "g", "a", "l", " ", "G", "r", "o", "u", "p">>,
    <<"M", "a", "r", "s", "h", "a", "l", "l", " ", "&", " ", "B", "r", "i", "g", "g", "s">>,
    <<"A", "s", "h", "f", "o", "r", "d", " ", "L", "a", "w", " ", "O", "f", "f", "i", "c", "e", "s">>,
    <<"D", "a", "v", "e", "n", "p", "o", "r", "t", " ", "P", "a", "r", "t", "n", "e", "r", "s">>,
    <<"S", "t", "e", "r", "l", "i", "n", "g", " ", "&", " ", "Y", "o", "u", "n", "g">>,
    <<"W", "h", "i", "t", "m", "o", "r", "e", " ", "C", "o", "l", "e", "m", "a", "n", " ", "L", "L", "P">>>>

\* _generate_opposing_counsel (pseudonymizer.py 255-263).
generate_opposing_counsel(hex_hash) ==
    generate_person(hex_hash) \o <<",", " ">> \o pick_from_pool(OpposingFirms, Tail(hex_hash))

\* Mutant: the placeholder without its brackets.
generate_pseudonym_bare(entity_type, original, hex_hash) ==
    CASE entity_type = "PERSON" -> generate_person(hex_hash)
      [] entity_type = "OPPOSING_COUNSEL" -> generate_opposing_counsel(hex_hash)
      [] entity_type \notin GeneratorTypes ->
            <<"R", "E", "D", "A", "C", "T", "E", "D", "_">> \o TypeChars(entity_type)

\* generate_pseudonym (pseudonymizer.py 281-308), for the types the model uses: a type
\* with no generator gets the placeholder.
generate_pseudonym(entity_type, original, hex_hash) ==
    CASE entity_type = "PERSON" -> generate_person(hex_hash)
      [] entity_type = "OPPOSING_COUNSEL" -> generate_opposing_counsel(hex_hash)
      [] entity_type \notin GeneratorTypes ->
            <<"[", "R", "E", "D", "A", "C", "T", "E", "D", "_">> \o TypeChars(entity_type) \o <<"]">>

\* A Python dict, in insertion order: a sequence of <<key, value>> pairs.
DictIndex(d, key) ==
    IF \E i \in 1..Len(d) : d[i][1] = key
    THEN CHOOSE i \in 1..Len(d) : d[i][1] = key
    ELSE 0
DictHas(d, key) == DictIndex(d, key) # 0
DictGet(d, key) == d[DictIndex(d, key)][2]
\* d[key] = value: an existing key keeps its place.
DictSet(d, key, value) ==
    IF DictHas(d, key)
    THEN [d EXCEPT ![DictIndex(d, key)] = <<key, value>>]
    ELSE Append(d, <<key, value>>)

\* Pseudonymizer.__init__ (pseudonymizer.py 324-330), constructed at time t.
NewPseudonymizer(session_id, firm_id, t) ==
    [session_id |-> session_id, firm_id |-> firm_id,
     mappings |-> <<>>, reverse |-> <<>>,
     created_at |-> t, expires_at |-> t + SESSION_EXPIRY_SECONDS]

\* Mutant: expiry is reached at the deadline itself (>= for >).
is_expired_at_deadline(p, t) == t >= p.expires_at

\* Pseudonymizer.is_expired (pseudonymizer.py 332-334), read at time t.
is_expired(p, t) == t > p.expires_at

\* key = f"{entity_type}::{original}" (pseudonymizer.py 398).
MappingKey(entity_type, original) == TypeChars(entity_type) \o <<":", ":">> \o original

\* Mutant: no lookup, and the pseudonym is generated from the hash salted with the
\* number of entries the session holds (a generator that is not a function of the
\* original alone, as an unseeded value generator would be).
get_or_create_unseeded(p, original, entity_type) ==
    LET key == MappingKey(entity_type, original)
        hex_hash == [sha256(original) EXCEPT ![1] = @ + Len(p.mappings)]
        pseudonym == generate_pseudonym(entity_type, original, hex_hash)
        entry == [original |-> original, hash |-> hex_hash,
                  pseudonym |-> pseudonym, type |-> entity_type]
    IN [p |-> [p EXCEPT !.mappings = Append(@, <<key, entry>>),
                        !.reverse = DictSet(@, pseudonym, original)],
        entry |-> entry]

\* Mutant: no lookup; the entry is built again on every call, from the hash and the
\* number of entries held, and stored over the one recorded before.
get_or_create_overwriting(p, original, entity_type) ==
    LET key == MappingKey(entity_type, original)
        hex_hash == [sha256(original) EXCEPT ![1] = @ + Len(p.mappings)]
        pseudonym == generate_pseudonym(entity_type, original, hex_hash)
        entry == [original |-> original, hash |-> hex_hash,
                  pseudonym |-> pseudonym, type |-> entity_type]
    IN [p |-> [p EXCEPT !.mappings = DictSet(@, key, entry),
                        !.reverse = DictSet(@, pseudonym, original)],
        entry |-> entry]

\* Mutant: the hash is salted with the session's firm id and creation time.
get_or_create_session_salted(p, original, entity_type) ==
    LET key == MappingKey(entity_type, original)
    IN IF DictHas(p.mappings, key)
       THEN [p |-> p, entry |-> DictGet(p.mappings, key)]
       ELSE LET hex_hash == [sha256(original) EXCEPT ![1] = @ + Len(p.firm_id) + p.created_at]
                pseudonym == generate_pseudonym(entity_type, original, hex_hash)
                entry == [original |-> original, hash |-> hex_hash,
                          pseudonym |-> pseudonym, type |-> entity_type]
            IN [p |-> [p EXCEPT !.mappings = DictSet(@, key, entry),
                                !.reverse = DictSet(@, pseudonym, original)],
                entry |-> entry]

\* Pseudonymizer._get_or_create (pseudonymizer.py 396-416): the session after the
\* call and the entry returned.
get_or_create(p, original, entity_type) ==
    LET key == MappingKey(entity_type, original)
    IN IF DictHas(p.mappings, key)
       THEN [p |-> p, entry |-> DictGet(p.mappings, key)]
       ELSE LET hex_hash == sha256(original)
                pseudonym == generate_pseudonym(entity_type, original, hex_hash)
                entry == [original |-> original, hash |-> hex_hash,
                          pseudonym |-> pseudonym, type |-> entity_type]
            IN [p |-> [p EXCEPT !.mappings = DictSet(@, key, entry),
                                !.reverse = DictSet(@, pseudonym, original)],
                entry |-> entry]

\* Mutant: the sort is ascending.
SortedAscending(key) ==
    LET n == Len(key)
        Before(j, i) == key[j] < key[i] \/ (key[j] = key[i] /\ j < i)
        Rank(i) == 1 + Cardinality({j \in 1..n : j # i /\ Before(j, i)})
    IN [q \in 1..n |-> CHOOSE i \in 1..n : Rank(i) = q]

\* sorted(seq, key=..., reverse=True): descending and stable. key[i] is the key of
\* seq[i]; the result lists the indices.
SortedDescending(key) ==
    LET n == Len(key)
        Before(j, i) == key[j] > key[i] \/ (key[j] = key[i] /\ j < i)
        Rank(i) == 1 + Cardinality({j \in 1..n : j # i /\ Before(j, i)})
    IN [q \in 1..n |-> CHOOSE i \in 1..n : Rank(i) = q]

\* Python's s[:a] + mid + s[b:] for 0 <= a, b.
Splice(s, a, mid, b) == Slice(s, 0, a) \o mid \o Slice(s, b, Len(s))

\* One iteration of the loop of pseudonymize (pseudonymizer.py 361-368): acc is the
\* session, the masked text, the pseudonym map and the count so far. substituted is
\* history: the <<type, original, pseudonym>> of each replacement, in the order made.
ReplaceEntity(acc, entity) ==
    CHOOSE r \in
        {[p |-> got.p,
          masked_text |-> Splice(acc.masked_text, entity.start,
                                 got.entry.pseudonym, entity.end),
          pseudonym_map |-> DictSet(acc.pseudonym_map, entity.text, got.entry.pseudonym),
          entities_replaced |-> acc.entities_replaced + 1,
          substituted |-> Append(acc.substituted,
                                 <<entity.type, entity.text, got.entry.pseudonym>>)] :
            got \in {get_or_create(acc.p, entity.text, entity.type)}} : TRUE

\* The loop of pseudonymize (pseudonymizer.py 356-368) after the first k entities of
\* sorted_entities.
RECURSIVE PseudonymizeLoop(_, _, _, _, _)
PseudonymizeLoop(p, text, entities, order, k) ==
    IF k = 0
    THEN [p |-> p, masked_text |-> text, pseudonym_map |-> <<>>, entities_replaced |-> 0,
          substituted |-> <<>>]
    ELSE CHOOSE r \in
            {ReplaceEntity(acc, entities[order[k]]) :
                acc \in {PseudonymizeLoop(p, text, entities, order, k - 1)}} : TRUE

\* Pseudonymizer.pseudonymize on a session that is not expired (pseudonymizer.py 352-370).
pseudonymize(p, text, entities) ==
    PseudonymizeLoop(p, text, entities,
                     SortedDescending([i \in 1..Len(entities) |-> entities[i].start]),
                     Len(entities))

\* str.replace(old, new) for a non-empty old: the occurrences, left to right, without
\* overlap.
RECURSIVE Replace(_, _, _)
Replace(s, old, new) ==
    IF Len(s) < Len(old) THEN s
    ELSE IF SubSeq(s, 1, Len(old)) = old
         THEN new \o Replace(SubSeq(s, Len(old) + 1, Len(s)), old, new)
         ELSE <<s[1]>> \o Replace(Tail(s), old, new)

\* The loop of depseudonymize (pseudonymizer.py 377-383).
RECURSIVE DepseudonymizeLoop(_, _, _, _)
DepseudonymizeLoop(reverse, order, text, k) ==
    IF k = 0 THEN text
    ELSE Replace(DepseudonymizeLoop(reverse, order, text, k - 1),
                 reverse[order[k]][1], reverse[order[k]][2])

\* The dictionary's own order, as a loop over self._reverse.items() without the sort
\* would visit it.
InsertionOrder(reverse) == [i \in 1..Len(reverse) |-> i]

\* sorted(self._reverse.items(), key=lambda x: len(x[0]), reverse=True): the entries
\* of the reverse dictionary by pseudonym length, longest first, equal lengths in
\* insertion order (pseudonymizer.py 379-381).
LongestFirst(reverse) ==
    SortedDescending([i \in 1..Len(reverse) |-> Len(reverse[i][1])])

\* Pseudonymizer.depseudonymize on a session that is not expired: the pseudonyms,
\* longest first.
depseudonymize(p, text) ==
    DepseudonymizeLoop(p.reverse, LongestFirst(p.reverse), text, Len(p.reverse))

\* Pseudonymizer.get_pseudonym_map (pseudonymizer.py 385-390).
RECURSIVE PseudonymMapLoop(_, _)
PseudonymMapLoop(mappings, k) ==
    IF k = 0 THEN <<>>
    ELSE DictSet(PseudonymMapLoop(mappings, k - 1),
                 mappings[k][2].original, mappings[k][2].pseudonym)
get_pseudonym_map(p) == PseudonymMapLoop(p.mappings, Len(p.mappings))

\* The instants the clock takes: a session constructed at 0 is at its deadline at
\* 3600 and past it at 3601.
Instants == {0, 3600, 3601}

Tick ==
    /\ \E t \in Instants : t > now /\ now' = t
    /\ UNCHANGED sha

ClockOff == now = 0 /\ sha = <<>>

\* Bounds of the calls made on the session.
MaxEnts == 2        \* entities in one pseudonymize call

PTexts == {<<"a", "b">>}
PTypes == {"PERSON", "API_KEY"}
POriginals == {<<"a">>, <<"b">>}

\* The hash functions explored: the first original's seed is fixed, and the other's
\* is a different seed, one that picks another pool entry or one that picks the same
\* pool entry.
HashFunctions == {h \in [POriginals -> Digests] : h[<<"a">>][1] = 0 /\ h[<<"b">>][1] # 0}

\* The entities of a call: one-character spans of the text, each carrying the text
\* it covers; any order, repeats and identical spans included. A person may be found
\* at either position, a key at the second: two originals of one type, and one
\* original under two types.
PEntity(text, ty, s) == [type |-> ty, text |-> Slice(text, s, s + 1), start |-> s, end |-> s + 1]
PSlots(text) == {sl \in PTypes \X (0..Len(text) - 1) : sl[1] = "PERSON" \/ sl[2] = Len(text) - 1}
PEntities(text) == {PEntity(text, sl[1], sl[2]) : sl \in PSlots(text)}
PEntityLists(text) == SeqsUpTo(PEntities(text), MaxEnts)

NoCall ==
    [op |-> "none", error |-> "none", text |-> <<>>, entities |-> <<>>,
     masked_text |-> <<>>, pseudonym_map |-> <<>>, entities_replaced |-> 0,
     entries_before |-> 0, result |-> <<>>, map |-> <<>>]

SessionOff == session = <<>> /\ last = NoCall /\ issued = {}

\* The object is constructed at time 0, and nothing has been called yet.
InitSession ==
    /\ now = 0
    /\ sha \in HashFunctions
    /\ session = NewPseudonymizer(<<"s">>, <<>>, 0)
    /\ last = NoCall
    /\ issued = {}

\* session.pseudonymize(text, entities): RuntimeError("Session expired") before
\* anything else when the session is expired (pseudonymizer.py 352-353).
PseudonymizeWith(text, entities) ==
    IF is_expired(session, now)
    THEN /\ last' = [last EXCEPT !.op = "pseudonymize", !.error = "Session expired"]
         /\ UNCHANGED <<session, issued, clockVars>>
    ELSE \E r \in {pseudonymize(session, text, entities)} :
            /\ session' = r.p
            /\ last' = [op |-> "pseudonymize", error |-> "none", text |-> text,
                        entities |-> entities, masked_text |-> r.masked_text,
                        pseudonym_map |-> r.pseudonym_map,
                        entities_replaced |-> r.entities_replaced,
                        entries_before |-> Len(session.mappings),
                        result |-> <<>>, map |-> <<>>]
            /\ issued' = issued \cup Range(r.substituted)
            /\ UNCHANGED clockVars

PseudonymizeCall ==
    \E text \in PTexts : \E entities \in PEntityLists(text) :
        PseudonymizeWith(text, entities)

\* session.depseudonymize(text) on the masked text the latest successful pseudonymize
\* returned (pseudonymizer.py 372-383).
DepseudonymizeCall ==
    /\ IF is_expired(session, now)
       THEN last' = [last EXCEPT !.op = "depseudonymize", !.error = "Session expired"]
       ELSE last' = [last EXCEPT !.op = "depseudonymize", !.error = "none",
                                 !.result = depseudonymize(session, last.masked_text)]
    /\ UNCHANGED <<session, issued, clockVars>>

\* session.get_pseudonym_map() (pseudonymizer.py 385-390): no expiry test.
GetPseudonymMapCall ==
    /\ last' = [last EXCEPT !.op = "get_pseudonym_map", !.error = "none",
                            !.map = get_pseudonym_map(session)]
    /\ UNCHANGED <<session, issued, clockVars>>

NextSession ==
    \/ PseudonymizeCall
    \/ DepseudonymizeCall
    \/ GetPseudonymMapCall
    \/ Tick /\ UNCHANGED sessionVars

\* A second family of inputs for one session: persons and opposing counsel, whose
\* generated pseudonym is the person pseudonym of the same digest followed by a firm
\* name, so that one known pseudonym can lie inside another.
CounselTypes == {"PERSON", "OPPOSING_COUNSEL"}
CounselSlots(text) ==
    {sl \in CounselTypes \X (0..Len(text) - 1) : sl[1] = "OPPOSING_COUNSEL" \/ sl[2] = 0}
CounselEntities(text) == {PEntity(text, sl[1], sl[2]) : sl \in CounselSlots(text)}
CounselEntityLists(text) == SeqsUpTo(CounselEntities(text), MaxEnts)

CounselPseudonymizeCall ==
    \E text \in PTexts : \E entities \in CounselEntityLists(text) :
        PseudonymizeWith(text, entities)

NextCounsel ==
    \/ CounselPseudonymizeCall
    \/ DepseudonymizeCall
    \/ Tick /\ UNCHANGED sessionVars

(***************************************************************************)
(* main.py: the session store and the /v1/pseudonymize handler             *)
(***************************************************************************)

\* Bounds of the store's exploration.
Prefilled == 99     \* sessions the store holds at the start
MaxMore == 3        \* requests handled after that

\* Session ids: the ids requests name, and the ids uuid4 makes up for requests that
\* name none (never the same id twice).
NamedIds == {<<"id", 1>>, <<"id", 2>>}
Uuid(n) == <<"uuid", n>>
NoId == <<>>
\* request.firm_id or "": the clients of the two named sessions belong to two firms, a
\* request that names no session carries no firm.
FirmOf(named) ==
    CASE named = <<"id", 1>> -> <<"f">>
      [] named = <<"id", 2>> -> <<"g", "g">>
      [] OTHER -> <<>>

\* What the producers find in a request's text: nothing, one person, or two API keys
\* (a person found by two producers in the second text).
RequestText == <<"a", "b">>
RequestCandidate(ty, s, src) ==
    [type |-> ty, text |-> Slice(RequestText, s, s + 1), start |-> s, end |-> s + 1,
     confidence |-> 80, source |-> src]
RequestCandidates == {
    <<>>,
    <<RequestCandidate("PERSON", 0, "presidio"), RequestCandidate("PERSON", 0, "gliner")>>,
    <<RequestCandidate("API_KEY", 0, "custom"), RequestCandidate("API_KEY", 1, "custom")>>}

\* detect, from the merge on (pipeline.py 182-188).
detect(cands) ==
    LET out == boost_agreement(cands, merge_entities(cands))
    IN SubSeq(out, 1, Len(out))

\* Mutant: the cleanup waits for one entry more.
NeedsCleanupLate(n) == n > 101

\* len(_pseudonymizer_sessions) > 100 (main.py 171).
NeedsCleanup(n) == n > 100

\* Mutant: above the threshold the cleanup empties the store.
CleanupEverything(store, t) ==
    IF NeedsCleanup(Cardinality(DOMAIN store))
    THEN [k \in {} |-> store[k]]
    ELSE store

\* The lazy cleanup (main.py 170-176), at time t.
Cleanup(store, t) ==
    IF NeedsCleanup(Cardinality(DOMAIN store))
    THEN LET expired_keys == {k \in DOMAIN store : is_expired(store[k], t)}
         IN [k \in DOMAIN store \ expired_keys |-> store[k]]
    ELSE store

\* _get_or_create_pseudonymizer (main.py 165-184), at time t: the store after the call;
\* the object returned is the one it holds under session_id.
get_or_create_pseudonymizer(store, session_id, firm_id, t) ==
    LET cleaned == Cleanup(store, t)
    IN IF session_id \in DOMAIN cleaned /\ ~is_expired(cleaned[session_id], t)
       THEN cleaned
       ELSE [k \in DOMAIN cleaned \cup {session_id} |->
                IF k = session_id THEN NewPseudonymizer(session_id, firm_id, t)
                ELSE cleaned[k]]

NoResponse ==
    [session_id |-> NoId, status |-> 0, detail |-> "", masked_text |-> <<>>,
     entities |-> <<>>, pseudonym_map |-> <<>>, score |-> 0, level |-> ""]

StoreOff ==
    /\ pseudonymizer_sessions = <<>> /\ next_uuid = 0 /\ requests = 0
    /\ response = NoResponse /\ inflight = {}

\* The store after Prefilled requests that named no session, for a text in which
\* nothing was detected, all handled at time 0.
InitStore ==
    /\ now = 0
    /\ sha \in HashFunctions
    /\ pseudonymizer_sessions =
           [k \in {Uuid(n) : n \in 1..Prefilled} |-> NewPseudonymizer(k, <<>>, 0)]
    /\ next_uuid = Prefilled + 1
    /\ requests = Prefilled
    /\ response = NoResponse
    /\ inflight = {}

\* pseudonymize_text (main.py 187-244), for a request that names the session `named`
\* (NoId: none) and in whose text the producers find cands. The handler has no await:
\* it runs from start to end without another request in between. The clock is read at
\* `now` by _get_or_create_pseudonymizer and at t2, at most a second later, by
\* pseudonymize; every exception becomes a 500 response carrying its message.
PseudonymizeRequest(named, cands, t2) ==
    /\ requests < Prefilled + MaxMore
    /\ t2 \in Instants /\ now <= t2 /\ t2 <= now + 1
    /\ \E entities \in {detect(cands)} :
       \E session_id \in {IF named = NoId THEN Uuid(next_uuid) ELSE named} :
       \E store \in {get_or_create_pseudonymizer(pseudonymizer_sessions, session_id,
                                                  FirmOf(named), now)} :
          IF is_expired(store[session_id], t2)
          THEN /\ pseudonymizer_sessions' = store
               /\ response' = [NoResponse EXCEPT !.session_id = session_id, !.status = 500,
                                                 !.detail = "Session expired"]
          ELSE \E r \in {pseudonymize(store[session_id], RequestText, entities)} :
               \E scored \in compute_sensitivity_score(RequestText, entities) :
                  /\ pseudonymizer_sessions' = [store EXCEPT ![session_id] = r.p]
                  /\ response' = [session_id |-> session_id, status |-> 200, detail |-> "",
                                  masked_text |-> r.masked_text, entities |-> entities,
                                  pseudonym_map |-> r.pseudonym_map,
                                  score |-> scored.score, level |-> scored.level]
    /\ next_uuid' = IF named = NoId THEN next_uuid + 1 ELSE next_uuid
    /\ requests' = requests + 1
    /\ now' = t2
    /\ UNCHANGED sha

NextStore ==
    \/ \E named \in NamedIds \cup {NoId} : \E cands \in RequestCandidates :
       \E t2 \in Instants : PseudonymizeRequest(named, cands, t2) /\ UNCHANGED inflight
    \/ Tick /\ UNCHANGED storeVars

(***************************************************************************)
(* main.py: requests in flight at the same time                            *)
(***************************************************************************)

\* Bound: the requests that arrive in one run, on top of the prefilled ones.
MaxArrivals == 2
\* Bound: the requests that can be waiting for their handler at the same time.
MaxInflight == 2

\* What the producers find in a concurrent request's text: nothing, the person at the
\* first position, or the person at the second.
ConcurrentCandidates == {
    <<>>,
    <<RequestCandidate("PERSON", 0, "presidio")>>,
    <<RequestCandidate("PERSON", 1, "presidio")>>}

\* A request has been received and its handler is scheduled on the event loop.
\* `seen` is history: what the handlers of requests for the same session wrote while
\* this one was waiting.
Arrive ==
    /\ Cardinality(inflight) < MaxInflight
    /\ requests - Prefilled + Cardinality(inflight) < MaxArrivals
    /\ \E named \in NamedIds : \E cands \in ConcurrentCandidates :
          inflight' = inflight \cup
              {[n |-> requests + Cardinality(inflight) + 1, session_id |-> named,
                cands |-> cands, seen |-> {}]}
    /\ UNCHANGED <<pseudonymizer_sessions, next_uuid, requests, response, clockVars>>

\* The entries of the session a handler left for the entities it processed: for each
\* entity the mapping under type::original, and the reverse entry under its pseudonym.
WrittenBy(p, entities) ==
    {LET entry == DictGet(p.mappings, MappingKey(entities[i].type, entities[i].text))
     IN [key |-> MappingKey(entities[i].type, entities[i].text),
         pseudonym |-> entry.pseudonym,
         original |-> DictGet(p.reverse, entry.pseudonym)] : i \in 1..Len(entities)}

\* The event loop runs the handler of one waiting request. pseudonymize_text is a
\* coroutine without any await (main.py 187-244): once started it runs to its return
\* before the loop starts another handler, in whatever order the requests were read.
Handle ==
    \E r \in inflight : \E t2 \in Instants :
        /\ PseudonymizeRequest(r.session_id, r.cands, t2)
        /\ inflight' =
              {IF p.session_id = r.session_id /\ response'.status = 200
               THEN [p EXCEPT !.seen = @ \cup WrittenBy(pseudonymizer_sessions'[r.session_id],
                                                       response'.entities)]
               ELSE p : p \in inflight \ {r}}

NextConcurrent ==
    \/ Arrive
    \/ Handle
    \/ Tick /\ UNCHANGED storeVars

(***************************************************************************)
(* The specifications: each component is stepped on its own inputs, the    *)
(* other components idle.                                                  *)
(***************************************************************************)
InitFusion == InitFusionInputs /\ ScoreOff /\ ClockOff /\ SessionOff /\ StoreOff
SpecFusion == InitFusion /\ [][NextFusion]_vars

InitProducersOnly == InitProducers /\ ScoreOff /\ ClockOff /\ SessionOff /\ StoreOff
SpecProducers == InitProducersOnly /\ [][NextProducers]_vars

InitScoreOnly == InitScore /\ FusionOff /\ ClockOff /\ SessionOff /\ StoreOff
NextScoreOnly == NextScore /\ UNCHANGED <<fusionVars, clockVars, sessionVars, storeVars>>
SpecScore == InitScoreOnly /\ [][NextScoreOnly]_vars

InitSessionOnly == InitSession /\ FusionOff /\ ScoreOff /\ StoreOff
NextSessionOnly == NextSession /\ UNCHANGED <<fusionVars, scoreVars, storeVars>>
SpecSession == InitSessionOnly /\ [][NextSessionOnly]_vars

NextCounselOnly == NextCounsel /\ UNCHANGED <<fusionVars, scoreVars, storeVars>>
SpecCounsel == InitSessionOnly /\ [][NextCounselOnly]_vars

InitStoreOnly == InitStore /\ FusionOff /\ ScoreOff /\ SessionOff
NextStoreOnly == NextStore /\ UNCHANGED <<fusionVars, scoreVars, sessionVars>>
SpecStore == InitStoreOnly /\ [][NextStoreOnly]_vars

NextConcurrentOnly == NextConcurrent /\ UNCHANGED <<fusionVars, scoreVars, sessionVars>>
SpecConcurrent == InitStoreOnly /\ [][NextConcurrentOnly]_vars

(***************************************************************************)
(* Fusion: the claims                                                      *)
(***************************************************************************)

Overlaps(a, b) == a.start < b.end /\ b.start < a.end
InputSpansValid == \A i \in 1..Len(all_entities) :
    0 <= all_entities[i].start /\ all_entities[i].start < all_entities[i].end
Survives(i) == i \in Range(merged)

\* C1: for candidates with valid spans, the list detect returns is ordered by start
\* ascending and consecutive entities do not overlap (entity[i].end <= entity[i+1].start).
C1_FusedOrderedNonOverlapping ==
    (fpc = "done" /\ InputSpansValid) =>
        \A p \in 1..Len(boosted) - 1 :
            /\ boosted[p].start <= boosted[p + 1].start
            /\ boosted[p].end <= boosted[p + 1].start

\* Two overlapping candidates went in, one was suppressed, and two entities came out.
C1_Witness ==
    /\ fpc = "done"
    /\ Len(boosted) = 2
    /\ Len(all_entities) = 3
    /\ \E i, j \in 1..Len(all_entities) :
          i # j /\ Overlaps(all_entities[i], all_entities[j])

\* C2 as claimed: of two overlapping candidates with different confidences, the
\* lower-confidence one is never in the fused output.
C2_LowerNeverSurvives ==
    fpc = "done" =>
        \A i, j \in 1..Len(all_entities) :
            (/\ Overlaps(all_entities[i], all_entities[j])
             /\ all_entities[i].confidence < all_entities[j].confidence)
            => ~Survives(i)

\* C2 amended: of two overlapping candidates with different confidences, the
\* lower-confidence one is in the fused output only when the higher-confidence one is
\* not, and then a third candidate overlaps the higher-confidence one with a
\* confidence at least as high (the one that suppressed it in the sweep).
C2_LowerSurvivesOnlyIfHigherSuppressed ==
    (fpc = "done" /\ InputSpansValid) =>
        \A i, j \in 1..Len(all_entities) :
            (/\ Overlaps(all_entities[i], all_entities[j])
             /\ all_entities[i].confidence < all_entities[j].confidence
             /\ Survives(i))
            => /\ ~Survives(j)
               /\ \E k \in 1..Len(all_entities) \ {i, j} :
                     /\ Overlaps(all_entities[k], all_entities[j])
                     /\ all_entities[k].confidence >= all_entities[j].confidence

\* A lower-confidence candidate survived although a higher-confidence one overlapped it.
C2_Witness ==
    /\ fpc = "done"
    /\ \E i, j \in 1..Len(all_entities) :
          /\ Overlaps(all_entities[i], all_entities[j])
          /\ all_entities[i].confidence < all_entities[j].confidence
          /\ Survives(i)

\* The sweep's iterations: iteration k examines sorted_entities[k] against the last
\* accepted entity of the list the first k-1 iterations built.
OverlapStep(k) ==
    all_entities[sorted_entities[k]].start < all_entities[Last(sweep[k - 1])].end
OverlapSteps == {k \in 2..Len(sweep) : OverlapStep(k)}
\* The entity iteration k keeps, and the one it drops.
KeptAt(k) == Last(sweep[k])
DroppedAt(k) ==
    IF KeptAt(k) = sorted_entities[k] THEN Last(sweep[k - 1]) ELSE sorted_entities[k]
Dropped == {DroppedAt(k) : k \in OverlapSteps}
\* The entity that suppressed d; the survivor at the end of d's chain of replacements.
SuppressorOf(d) == KeptAt(CHOOSE k \in OverlapSteps : DroppedAt(k) = d)
RECURSIVE ChainEnd(_)
ChainEnd(d) == IF d \in Dropped THEN ChainEnd(SuppressorOf(d)) ELSE d

\* C3: in every sweep iteration where the candidate overlaps the last accepted entity,
\* the list keeps its length, the candidate replaces the accepted entity exactly when
\* its confidence is strictly greater (a tie keeps the accepted one), the entity kept
\* has confidence >= the one dropped; and every survivor has confidence >= every
\* candidate it suppressed, directly or through a chain of replacements.
C3_KeptAtLeastDropped ==
    fpc = "done" =>
        /\ Len(sweep) = Len(all_entities)
        /\ Len(sweep) > 0 => merged = Last(sweep)
        /\ \A k \in OverlapSteps :
                LET cand == sorted_entities[k]
                    acc == Last(sweep[k - 1])
                IN /\ Len(sweep[k]) = Len(sweep[k - 1])
                   /\ KeptAt(k) = (IF all_entities[cand].confidence
                                        > all_entities[acc].confidence
                                   THEN cand ELSE acc)
                   /\ all_entities[KeptAt(k)].confidence
                        >= all_entities[DroppedAt(k)].confidence
        /\ \A d \in Dropped :
             /\ Survives(ChainEnd(d))
             /\ all_entities[ChainEnd(d)].confidence >= all_entities[d].confidence

\* A chain: a candidate was dropped by one that was itself replaced later, and a tie
\* was decided for the accepted entity.
C3_Witness ==
    /\ fpc = "done"
    /\ \E d \in Dropped : SuppressorOf(d) \in Dropped
    /\ \E k \in OverlapSteps :
          all_entities[sorted_entities[k]].confidence
                = all_entities[Last(sweep[k - 1])].confidence

\* C4: a fused entity's confidence becomes min(1.0, confidence * 1.3) exactly when the
\* candidates of its type whose start and end are each within 2 of its own carry at
\* least 2 distinct sources, and is unchanged otherwise; no output confidence exceeds
\* 1.0.
C4_BoostExactlyOnAgreement ==
    fpc = "done" =>
        /\ Len(boosted) = Len(merged)
        /\ \A p \in 1..Len(boosted) :
             LET e == all_entities[merged[p]]
                 near == {j \in 1..Len(all_entities) :
                            /\ all_entities[j].type = e.type
                            /\ all_entities[j].start - e.start \in -2..2
                            /\ all_entities[j].end - e.end \in -2..2}
                 nsrc == Cardinality({all_entities[j].source : j \in near})
             IN /\ boosted[p].confidence =
                      (IF nsrc >= 2
                       THEN (IF e.confidence * 13 >= 1000 THEN 100
                             ELSE (e.confidence * 13) \div 10)
                       ELSE e.confidence)
                /\ boosted[p].confidence <= 100
                /\ (nsrc < 2 => boosted[p] = e)
                /\ [boosted[p] EXCEPT !.confidence = e.confidence] = e

\* An entity two distinct sources agree on was boosted from 0.8 to the cap 1.0.
C4_Witness ==
    /\ fpc = "done"
    /\ \E p \in 1..Len(boosted) :
          /\ boosted[p].confidence = 100
          /\ all_entities[merged[p]].confidence = 80
          /\ Cardinality({all_entities[j].source : j \in 1..Len(all_entities)}) = 2

(***************************************************************************)
(* Producers: the claims                                                   *)
(***************************************************************************)

\* The producers detect calls, in calling order, each with what it does.
ProducerCalls ==
    (IF engines.presidio THEN <<[src |-> "presidio", run |-> runs.presidio]>> ELSE <<>>)
    \o (IF engines.gliner THEN <<[src |-> "gliner", run |-> runs.gliner]>> ELSE <<>>)
    \o [k \in 1..engines.custom |-> [src |-> "custom", run |-> runs.custom[k]]]

SomeProducerRaised == \E k \in 1..Len(ProducerCalls) : ProducerCalls[k].run.raised

\* The candidates of the producers that returned, in calling order.
RECURSIVE CandidatesOfReturned(_)
CandidatesOfReturned(calls) ==
    IF calls = <<>> THEN <<>>
    ELSE CandidatesOfReturned(SubSeq(calls, 1, Len(calls) - 1))
         \o (IF Last(calls).run.raised THEN <<>>
             ELSE Converted(Last(calls).run.results, Last(calls).src))

Fusion(cands) == boost_agreement(cands, merge_entities(cands))

IsValidCandidate(e) == ValidSpan(e, TextLen)

\* C15: a candidate whose span violates 0 <= start < end <= len(text) is dropped
\* before fusion: detect returns the fusion of the valid candidates alone, so an
\* invalid one is not in the output, suppresses nothing and agrees with nothing.
C15_InvalidSpansDroppedBeforeFusion ==
    fpc = "done" => boosted = Fusion(SelectSeq(all_entities, IsValidCandidate))

\* C16: the producer names returned with a detect result are exactly the producers
\* that contributed: a producer that raised is not named, and the producer of every
\* candidate that entered fusion is.
C16_EnginesUsedAreContributors ==
    fpc = "done" =>
        /\ \A s \in {"presidio", "gliner", "custom"} :
              (/\ \E k \in 1..Len(ProducerCalls) : ProducerCalls[k].src = s
               /\ \A k \in 1..Len(ProducerCalls) :
                     ProducerCalls[k].src = s => ProducerCalls[k].run.raised)
              => s \notin Range(engines_used)
        /\ \A i \in 1..Len(all_entities) : all_entities[i].source \in Range(engines_used)

(***************************************************************************)
(* Scorer: the claims                                                      *)
(***************************************************************************)

\* C5: compute_sensitivity_score returns an integer score with 0 <= score <= 100 and a
\* level fixed by the score alone: low up to 25, medium for 26..60, high for 61..85,
\* critical from 86.
C5_ScoreBoundedLevelByTable ==
    spc = "done" =>
        /\ s_result.score \in 0..100
        /\ s_result.level =
              (CASE s_result.score \in 0..25 -> "low"
                 [] s_result.score \in 26..60 -> "medium"
                 [] s_result.score \in 61..85 -> "high"
                 [] s_result.score \in 86..100 -> "critical"
                 [] OTHER -> "none")

\* The four components add up to more than 100 and the score returned is 100.
C5_Witness ==
    /\ spc = "done"
    /\ RawScore(s_text, s_entities) > 100 * ScoreUnit
    /\ s_result.score = 100
    /\ s_result.level = "critical"

\* C20: for the 55-character example text with PERSON (0.9), EMAIL (0.95) and SSN
\* (0.99), the weights are 10, 12 and 40, the combination multiplier is 1.3 for the
\* three distinct types, and the level returned is high or critical, with a score of
\* at least 61.
C20_ScenarioScoresHigh ==
    (s_text = ScenarioText /\ s_entities = ScenarioEntities) =>
        /\ Len(s_text) = 55
        /\ <<Weight(s_entities[1].type), Weight(s_entities[2].type),
              Weight(s_entities[3].type)>> = <<10, 12, 40>>
        /\ CombinationFactor(s_entities) = 130
        /\ spc = "done" =>
               /\ s_result.level \in {"high", "critical"}
               /\ s_result.score >= 61

\* The example has been scored: the weighted sum 60.0 times 1.3 is capped at 70.
C20_Witness ==
    /\ spc = "done"
    /\ s_text = ScenarioText /\ s_entities = ScenarioEntities
    /\ EntitySum(s_entities) * CombinationFactor(s_entities) * CountFactor(s_entities)
           = 78 * ScoreUnit
    /\ s_result.score = 70
    /\ s_result.level = "high"

\* C21: with no entities and a text shorter than 500 characters that contains no
\* privilege-marker phrase, the result is score 0, level "low" and the explanation
\* "No sensitive information detected.".
C21_NothingDetectedScoresZero ==
    (spc = "done" /\ s_entities = <<>> /\ Len(s_text) < 500 /\ MarkersPresent(s_text) = {}) =>
        s_result = [score |-> 0, level |-> "low",
                    explanation |-> "No sensitive information detected."]

\* The 50-character text without entities has been scored.
C21_Witness ==
    /\ spc = "done"
    /\ s_entities = <<>> /\ Len(s_text) = 50 /\ MarkersPresent(s_text) = {}
    /\ s_result.score = 0 /\ s_result.level = "low"
    /\ s_result.explanation = "No sensitive information detected."

\* The multipliers as the rule states them, in hundredths and in tenths.
DistinctTypes(entities) == Cardinality({entities[i].type : i \in 1..Len(entities)})
StatedCombination(entities) ==
    CASE DistinctTypes(entities) >= 3 -> 130
      [] DistinctTypes(entities) = 2 -> 115
      [] OTHER -> 100
StatedVolume(entities) ==
    CASE Len(entities) >= 10 -> 14
      [] Len(entities) \in 5..9 -> 12
      [] OTHER -> 10
RECURSIVE WeightedSum(_)
WeightedSum(entities) ==
    IF entities = <<>> THEN 0
    ELSE Weight(Last(entities).type) * Last(entities).confidence
         + WeightedSum(SubSeq(entities, 1, Len(entities) - 1))

\* C23: the entity component is min(70, S * c * v): S the sum of weight * confidence
\* (weight 5 for a type that is not listed), c 1.3 for three or more distinct types,
\* 1.15 for exactly two, else 1, v 1.4 for ten or more entities, 1.2 for five to
\* nine, else 1; the cap of 70 comes after both multipliers.
C23_EntityComponentCappedAfterMultipliers ==
    /\ Weight("BADGE_NUMBER") = 5
    /\ spc = "done" =>
          s_locals.entity_score =
              Min(70 * ScoreUnit, WeightedSum(s_entities) * StatedCombination(s_entities)
                                      * StatedVolume(s_entities))

\* Five to nine entities of three types, one of them unlisted, whose sum is below 70
\* and whose product with the two multipliers is above it: the component is 70.
C23_Witness ==
    /\ spc = "done"
    /\ Len(s_entities) \in 5..9 /\ DistinctTypes(s_entities) = 3
    /\ \E i \in 1..Len(s_entities) : s_entities[i].type = "BADGE_NUMBER"
    /\ WeightedSum(s_entities) < 70 * 100
    /\ WeightedSum(s_entities) * 130 * 12 > 70 * ScoreUnit
    /\ s_locals.entity_score = 70 * ScoreUnit

\* Does a keyword occur in the lower-cased text at some offset p with the whole
\* occurrence inside [max(0, start - 200), min(len, end + 200))? Offsets from 0.
WindowHasKeyword(lower_text, start, end) ==
    LET lo == Max(0, start - 200)
        hi == Min(Len(lower_text), end + 200)
    IN \E k \in 1..Len(LEGAL_KEYWORDS) :
          \E p \in lo..(hi - Len(LEGAL_KEYWORDS[k])) :
              \A j \in 1..Len(LEGAL_KEYWORDS[k]) : lower_text[p + j] = LEGAL_KEYWORDS[k][j]

\* C24: the context component is min(25, 5 * k), k the number of entities with at
\* least one keyword in the lower-cased window [max(0, start - 200),
\* min(len(text), end + 200)): an entity counts once, however many keywords its
\* window holds.
C24_ContextFivePerEntityWithKeyword ==
    spc = "done" =>
        \E lower_text \in {Lower(s_text)} :
        \E near \in {{sp \in {<<s_entities[i].start, s_entities[i].end>> : i \in 1..Len(s_entities)} :
                          WindowHasKeyword(lower_text, sp[1], sp[2])}} :
            s_locals.context_score =
                Min(25, 5 * Cardinality({i \in 1..Len(s_entities) :
                                            <<s_entities[i].start, s_entities[i].end>> \in near}))

\* One entity whose window holds two keywords, counted once, beside one whose window
\* holds none.
C24_Witness ==
    /\ spc = "done"
    /\ Len(s_entities) = 2
    /\ Cardinality({k \in 1..Len(LEGAL_KEYWORDS) :
           Contains(Surrounding(Lower(s_text), s_entities[1]), LEGAL_KEYWORDS[k])}) >= 2
    /\ ~WindowHasKeyword(Lower(s_text), s_entities[2].start, s_entities[2].end)
    /\ s_locals.context_score = 5

\* An entity whose window stops one character short of the keyword beside one whose
\* window just holds it, at either end of the text.
WindowEdgeReached ==
    /\ spc = "done"
    /\ s_text \in ContextTexts
    /\ \/ s_entities = <<ScoreEntity("PERSON", 201, 206, 50), ScoreEntity("PERSON", 200, 205, 50)>>
          /\ s_text[1] = "s"
       \/ s_entities = <<ScoreEntity("PERSON", 100, 109, 50), ScoreEntity("PERSON", 100, 110, 50)>>
          /\ s_text[1] = "x"
    /\ s_locals.context_score = 5

(***************************************************************************)
(* Pseudonymization session: the claims                                    *)
(***************************************************************************)

\* C6: within one session, the pseudonym substituted for a (type, original) pair is
\* the same in every call that substitutes it, and looking a pair up again adds no
\* entry: the session holds exactly one entry per pair ever substituted.
C6_PseudonymStableInSession ==
    /\ \A x \in issued : \A y \in issued :
           (x[1] = y[1] /\ x[2] = y[2]) => x[3] = y[3]
    /\ Len(session.mappings) = Cardinality({<<x[1], x[2]>> : x \in issued})

\* A call replaced entities on a session that already held entries, and every pair it
\* looked up was already there: the session holds as many entries as before the call.
C6_Witness ==
    /\ last.op = "pseudonymize" /\ last.error = "none"
    /\ last.entities_replaced >= 1
    /\ last.entries_before >= 1
    /\ Len(session.mappings) = last.entries_before

\* The spans of the latest pseudonymize call lie in the text and are pairwise disjoint.
LastEntitiesDisjoint ==
    /\ \A i \in 1..Len(last.entities) : ValidSpan(last.entities[i], Len(last.text))
    /\ \A i \in 1..Len(last.entities) : \A j \in 1..Len(last.entities) :
           i # j => ~(last.entities[i].start < last.entities[j].end
                      /\ last.entities[j].start < last.entities[i].end)
LastEntitiesCarrySlice ==
    \A i \in 1..Len(last.entities) :
        last.entities[i].text = Slice(last.text, last.entities[i].start, last.entities[i].end)
\* No pseudonym of the session occurs in the text that was pseudonymized or in an
\* original value.
NoPseudonymInTextOrOriginal ==
    \A i \in 1..Len(session.reverse) :
        /\ ~Contains(last.text, session.reverse[i][1])
        /\ \A k \in 1..Len(session.mappings) :
               ~Contains(session.mappings[k][2].original, session.reverse[i][1])

\* C7: in a session that is not expired, depseudonymize applied to the masked text of
\* a pseudonymize call returns the text that was pseudonymized, when the entities are
\* disjoint, carry the text they cover, and no pseudonym occurs in the text or in an
\* original; whatever the session held before. (Refuted: two originals that receive
\* the same pseudonym share one reverse entry, and both are restored to one of them.)
C7_RoundTripRestoresText ==
    (/\ last.op = "depseudonymize" /\ last.error = "none"
     /\ LastEntitiesDisjoint /\ LastEntitiesCarrySlice
     /\ NoPseudonymInTextOrOriginal)
        => last.result = last.text

\* The pseudonym the session holds for the pair of entity e.
SessionPseudonym(e) == DictGet(session.mappings, MappingKey(e.type, e.text)).pseudonym

\* The text of the latest pseudonymize call, from offset pos on, in which each span of
\* the call's entities is replaced by the session's pseudonym for the entity and every
\* other character is copied.
RECURSIVE ExpectedMasked(_)
ExpectedMasked(pos) ==
    IF pos >= Len(last.text) THEN <<>>
    ELSE IF \E i \in 1..Len(last.entities) : last.entities[i].start = pos
         THEN LET e == last.entities[CHOOSE i \in 1..Len(last.entities) :
                                         last.entities[i].start = pos]
              IN SessionPseudonym(e) \o ExpectedMasked(e.end)
         ELSE <<last.text[pos + 1]>> \o ExpectedMasked(pos + 1)

\* C18: for a session that is not expired and entities with valid, pairwise disjoint
\* spans, in any order, pseudonymize returns the text with each span replaced by the
\* pseudonym of the entity's (type, text) and every other character unchanged and in
\* place, and a count equal to the number of entities.
C18_SpansReplacedRestUnchanged ==
    (last.op # "none" /\ LastEntitiesDisjoint) =>
        /\ last.masked_text = ExpectedMasked(0)
        /\ last.entities_replaced = Len(last.entities)

\* A call replaced two disjoint spans that were given in ascending order of start.
C18_Witness ==
    /\ last.op = "pseudonymize" /\ last.error = "none"
    /\ Len(last.entities) = 2
    /\ last.entities[1].start < last.entities[2].start
    /\ LastEntitiesDisjoint
    /\ last.entities_replaced = 2

\* C19: get_pseudonym_map leaves the session as it is, and the map it returns sends,
\* for every entry of mappings, the entry's original to the entry's pseudonym.
\* (Refuted: the map is keyed by the original alone, so of two entries that have one
\* original under two types only the later one's pseudonym is returned.)
C19_MapCoversEveryEntry ==
    /\ [](last.op = "get_pseudonym_map" =>
            \A k \in 1..Len(session.mappings) :
                /\ DictHas(last.map, session.mappings[k][2].original)
                /\ DictGet(last.map, session.mappings[k][2].original) =
                       session.mappings[k][2].pseudonym)
    /\ [][(last'.op = "get_pseudonym_map" /\ last' # last) => session' = session]_vars

\* Is short a proper substring of long?
ProperSubstring(short, long) == Len(short) < Len(long) /\ Contains(long, short)

\* The rewriting the longest-first order is meant to achieve, computed without any
\* order: scanning the text from the left, the longest known pseudonym that starts at
\* the position is replaced by its original, any other character is copied.
RECURSIVE LongestMatchRewrite(_, _, _)
LongestMatchRewrite(reverse, text, pos) ==
    IF pos > Len(text) THEN <<>>
    ELSE LET starts == {k \in 1..Len(reverse) :
                           /\ pos + Len(reverse[k][1]) - 1 <= Len(text)
                           /\ SubSeq(text, pos, pos + Len(reverse[k][1]) - 1) = reverse[k][1]}
         IN IF starts = {} THEN <<text[pos]>> \o LongestMatchRewrite(reverse, text, pos + 1)
            ELSE LET k == CHOOSE i \in starts :
                              \A j \in starts : Len(reverse[j][1]) <= Len(reverse[i][1])
                 IN reverse[k][2] \o
                    LongestMatchRewrite(reverse, text, pos + Len(reverse[k][1]))

\* Some known pseudonym lies properly inside another one that occurs in the text.
NestedPseudonymIn(reverse, text) ==
    \E i, j \in 1..Len(reverse) :
        ProperSubstring(reverse[i][1], reverse[j][1]) /\ Contains(text, reverse[j][1])

\* C17: depseudonymize visits the known pseudonyms in non-increasing length, and when
\* one known pseudonym is a proper substring of another that occurs in the text, the
\* result is the text with every occurrence of the longer one replaced by the longer
\* one's original: nothing is rewritten through the shorter one.
C17_LongerPseudonymReplacedWhole ==
    /\ \A q \in 1..Len(session.reverse) - 1 :
          Len(session.reverse[LongestFirst(session.reverse)[q]][1]) >=
              Len(session.reverse[LongestFirst(session.reverse)[q + 1]][1])
    /\ (last.op = "depseudonymize" /\ last.error = "none"
            /\ NestedPseudonymIn(session.reverse, last.masked_text))
        => last.result = LongestMatchRewrite(session.reverse, last.masked_text, 1)

C17_Witness ==
    /\ last.op = "depseudonymize" /\ last.error = "none"
    /\ NestedPseudonymIn(session.reverse, last.masked_text)
    /\ last.result = last.text
    /\ last.result # last.masked_text

\* C8: a pseudonymize or depseudonymize call made when now > created_at + 3600 fails
\* with "Session expired" and leaves mappings and reverse as they were; a call made
\* when now <= created_at + 3600 does not fail that way.
C8_ExpiryAfterDeadlineOnly ==
    [][(last' # last /\ last'.op \in {"pseudonymize", "depseudonymize"}) =>
          IF now > session.created_at + 3600
          THEN /\ last'.error = "Session expired"
               /\ session'.mappings = session.mappings
               /\ session'.reverse = session.reverse
          ELSE last'.error # "Session expired"]_vars

\* A call failed one second past the deadline, on a session that holds entries.
C8_Witness ==
    /\ last.error = "Session expired"
    /\ now = session.created_at + 3601
    /\ Len(session.mappings) >= 1
    /\ Len(session.reverse) >= 1

\* The entries of the session recorded for a type that has no generator.
PlaceholderEntries ==
    {session.mappings[k][2] : k \in {i \in 1..Len(session.mappings) :
                                         session.mappings[i][2].type \notin GeneratorTypes}}

\* C25, as stated: for a type that has no generator, the pseudonym is "REDACTED_"
\* followed by the type name and nothing else.
C25_PlaceholderIsBareName ==
    \A entry \in PlaceholderEntries :
        entry.pseudonym =
            <<"R", "E", "D", "A", "C", "T", "E", "D", "_">> \o TypeChars(entry.type)

\* C25, amended: for a type that has no generator, the pseudonym is "[REDACTED_"
\* followed by the type name and "]".
C25_PlaceholderIsBracketedName ==
    \A entry \in PlaceholderEntries :
        /\ entry.pseudonym =
               <<"[", "R", "E", "D", "A", "C", "T", "E", "D", "_">> \o TypeChars(entry.type)
                   \o <<"]">>
        /\ entry.type = "API_KEY" =>
               entry.pseudonym = <<"[", "R", "E", "D", "A", "C", "T", "E", "D", "_",
                                   "A", "P", "I", "_", "K", "E", "Y", "]">>

\* A session that has recorded an API key.
C25_Witness ==
    /\ last.op = "pseudonymize" /\ last.error = "none"
    /\ \E entry \in PlaceholderEntries : entry.type = "API_KEY"
    /\ \E i \in 1..Len(last.entities) : last.entities[i].type = "API_KEY"

\* C22: an entry of a session never changes and never goes away: across every call
\* (pseudonymize, depseudonymize, get_pseudonym_map, failing calls included) each key
\* of mappings stays, with the same original, type, hash and pseudonym, and
\* depseudonymize and get_pseudonym_map leave mappings exactly as they were.
C22_EntriesImmutableAndPermanent ==
    [][/\ \A k \in 1..Len(session.mappings) :
             /\ DictHas(session'.mappings, session.mappings[k][1])
             /\ DictGet(session'.mappings, session.mappings[k][1]) = session.mappings[k][2]
       /\ last'.op \in {"depseudonymize", "get_pseudonym_map"} =>
             session'.mappings = session.mappings
       /\ last'.error = "Session expired" => session'.mappings = session.mappings]_vars

\* A session holding two entries has gone through a pseudonymize call that named a
\* recorded pair again and added the other, and a later call failed on expiry: both
\* entries are there, each with the pseudonym that was substituted for it.
C22_Witness ==
    /\ last.error = "Session expired"
    /\ Len(session.mappings) = 2
    /\ last.entries_before = 1 /\ Len(last.entities) = 2
    /\ \A k \in 1..Len(session.mappings) :
          <<session.mappings[k][2].type, session.mappings[k][2].original,
            session.mappings[k][2].pseudonym>> \in issued

\* C26: in every state of a session the reverse map agrees with mappings: for every
\* entry, reverse[entry.pseudonym] = entry.original, so that no two originals share a
\* pseudonym and no reverse entry is overwritten with another original.
\* (Refuted: two originals can receive one pseudonym, and the later one's write
\* replaces the reverse entry of the earlier.)
C26_ReverseConsistentWithMappings ==
    \A k \in 1..Len(session.mappings) :
        /\ DictHas(session.reverse, session.mappings[k][2].pseudonym)
        /\ DictGet(session.reverse, session.mappings[k][2].pseudonym) =
               session.mappings[k][2].original

(***************************************************************************)
(* Session store: the claims                                               *)
(***************************************************************************)

RequestStep == requests' = requests + 1
StoreSize == Cardinality(DOMAIN pseudonymizer_sessions)

\* C9: a request that names a stored session that is past its deadline when the
\* request arrives is answered 500 "Session expired"; it is not served from another
\* mapping. (Refuted: the handler replaces the expired session by a new, empty one
\* under the same id and answers 200.)
C9_ExpiredSessionRequestFails ==
    [][(/\ RequestStep
        /\ response'.session_id \in DOMAIN pseudonymizer_sessions
        /\ now > pseudonymizer_sessions[response'.session_id].created_at + 3600)
          => (response'.status = 500 /\ response'.detail = "Session expired")]_vars

\* The step stores a session object that was not in the store: under a new id, or in
\* place of the object an id had.
Inserted ==
    \E k \in DOMAIN pseudonymizer_sessions' :
        \/ k \notin DOMAIN pseudonymizer_sessions
        \/ pseudonymizer_sessions'[k].created_at # pseudonymizer_sessions[k].created_at

\* C10 as stated: when an insertion leaves the store holding 101 entries, no entry with
\* expires_at < now at that moment is left in the store.
C10_ScanOnReaching101 ==
    [][(Inserted /\ Cardinality(DOMAIN pseudonymizer_sessions') = 101)
          => \A k \in DOMAIN pseudonymizer_sessions' :
                ~(pseudonymizer_sessions'[k].expires_at < now)]_vars

\* C10, amended: a request that finds the store holding more than 100 entries removes
\* every entry with expires_at < now at that moment (the id it names may be stored
\* again, as a new object created now); a request that finds 100 entries or fewer
\* removes no id from the store, also when its insertion brings the store to 101.
C10_ScanWhenAbove100 ==
    [][RequestStep =>
          IF StoreSize > 100
          THEN \A k \in DOMAIN pseudonymizer_sessions :
                  pseudonymizer_sessions[k].expires_at < now =>
                      \/ k \notin DOMAIN pseudonymizer_sessions'
                      \/ pseudonymizer_sessions'[k].created_at = now
          ELSE DOMAIN pseudonymizer_sessions \subseteq DOMAIN pseudonymizer_sessions']_vars

\* A scan has run: the store holds fewer sessions than it started with, none of them
\* expired, one of them created before now; the request that scanned was answered.
C10_Witness ==
    /\ StoreSize >= 1 /\ StoreSize < Prefilled
    /\ \A k \in DOMAIN pseudonymizer_sessions : ~(pseudonymizer_sessions[k].expires_at < now)
    /\ \E k \in DOMAIN pseudonymizer_sessions : pseudonymizer_sessions[k].created_at < now
    /\ response.status = 200

\* Session k of the store is, after the step, still stored and the same object.
Kept(k) ==
    /\ k \in DOMAIN pseudonymizer_sessions'
    /\ pseudonymizer_sessions'[k].created_at = pseudonymizer_sessions[k].created_at

\* C11: while the store holds 100 entries or fewer, no step - a request or the passage
\* of time - deletes a stored session or replaces it under its id by another object.
\* (Refuted: a request that names an expired session replaces it, whatever the size
\* of the store.)
C11_LeavesOnlyThroughScan ==
    [][StoreSize <= 100 => \A k \in DOMAIN pseudonymizer_sessions : Kept(k)]_vars

\* Entry i of session k's mappings is, after the step, still entry i, unchanged.
EntriesKept(k) ==
    /\ Len(pseudonymizer_sessions'[k].mappings) >= Len(pseudonymizer_sessions[k].mappings)
    /\ \A i \in 1..Len(pseudonymizer_sessions[k].mappings) :
           pseudonymizer_sessions'[k].mappings[i] = pseudonymizer_sessions[k].mappings[i]

\* The answered request was served by the session stored under its id: every entity
\* it replaced has its entry there, with the pseudonym the response maps it to.
ServedByStored ==
    LET p == pseudonymizer_sessions'[response'.session_id]
    IN \A i \in 1..Len(response'.entities) :
          LET e == response'.entities[i]
              key == MappingKey(e.type, e.text)
          IN /\ DictHas(p.mappings, key)
             /\ DictHas(response'.pseudonym_map, e.text)
             /\ DictGet(p.mappings, key).original = e.text
             /\ \E j \in 1..Len(response'.entities) :
                    /\ response'.entities[j].text = e.text
                    /\ DictGet(response'.pseudonym_map, e.text) =
                           DictGet(p.mappings,
                                   MappingKey(response'.entities[j].type, e.text)).pseudonym

\* C12: a session that is not expired when a step begins is, after the step, still
\* stored under its id, the same object, with every entry it held, unchanged - whether
\* the step is a request (with or without a scan) or the passage of time; and a request
\* that names it and is answered is served from it.
C12_LiveSessionKeptAndReused ==
    [][\A k \in DOMAIN pseudonymizer_sessions :
          ~(now > pseudonymizer_sessions[k].created_at + 3600) =>
              /\ Kept(k)
              /\ EntriesKept(k)
              /\ (RequestStep /\ response'.session_id = k /\ response'.status = 200)
                    => ServedByStored]_vars

\* A named session created before now has served two requests (it holds the entries
\* of both), the later one after a scan that emptied the store of its expired sessions.
C12_Witness ==
    /\ response.session_id \in NamedIds /\ response.status = 200
    /\ response.session_id \in DOMAIN pseudonymizer_sessions
    /\ pseudonymizer_sessions[response.session_id].created_at < now
    /\ Len(pseudonymizer_sessions[response.session_id].mappings) >= 3
    /\ StoreSize < Prefilled

\* C27: the pseudonym recorded for (type, original) depends on the type and the
\* original alone: any two sessions of the store, whatever their ids, firm ids,
\* creation times and earlier entries, hold the same pseudonym under the same key.
C27_PseudonymIndependentOfSession ==
    \E recorded \in {UNION {{<<mp[k][1], mp[k][2].pseudonym>> : k \in 1..Len(mp)} :
                               mp \in {pseudonymizer_sessions[s].mappings :
                                           s \in DOMAIN pseudonymizer_sessions}}} :
        \A a, b \in recorded : a[1] = b[1] => a[2] = b[2]

\* Two sessions that differ in id, firm, creation time and earlier entries hold the
\* same key, the second session after other entries.
C27_Witness ==
    \E s1, s2 \in NamedIds \cap DOMAIN pseudonymizer_sessions :
        LET p1 == pseudonymizer_sessions[s1]
            p2 == pseudonymizer_sessions[s2]
        IN /\ s1 # s2 /\ p1.firm_id # p2.firm_id /\ p1.created_at # p2.created_at
           /\ Len(p1.mappings) = 1 /\ Len(p2.mappings) = 3
           /\ p1.mappings[1][1] = p2.mappings[3][1]
           /\ p1.mappings[1][2].pseudonym = p2.mappings[3][2].pseudonym

(***************************************************************************)
(* Concurrent requests: the claims                                         *)
(***************************************************************************)

\* The handler of r runs in this step.
Handled(r) == r \in inflight /\ r \notin {[p EXCEPT !.seen = r.seen] : p \in inflight'}

\* C13: when two requests for the same session id are in flight together, in whatever
\* order their handlers run, the store holds one session under that id after the
\* later one, whose mappings contain every (type, original) either request processed
\* and whose reverse map has the entry of each: what the earlier handler wrote is
\* still there, not lost and not overwritten.
C13_ConcurrentRequestsLoseNothing ==
    [][\A r \in inflight :
          (Handled(r) /\ r.seen # {}) =>
              /\ response'.status = 200
              /\ r.session_id \in DOMAIN pseudonymizer_sessions'
              /\ LET p == pseudonymizer_sessions'[r.session_id]
                 IN /\ \A w \in r.seen \cup WrittenBy(p, response'.entities) :
                          /\ DictHas(p.mappings, w.key)
                          /\ DictGet(p.mappings, w.key).pseudonym = w.pseudonym
                          /\ DictHas(p.reverse, w.pseudonym)
                    /\ \A w \in r.seen : DictGet(p.reverse, w.pseudonym) = w.original]_vars
====
